---------------------------- MODULE Spec2Model ----------------------------
(***************************************************************************)
(* apt-cli-wrappers (src/src/lib.rs): the lock waiter that gates an apt    *)
(* command, the command supervisor apt_noninteractive_callback and the     *)
(* non-blocking line reader it polls.                                      *)
(*                                                                         *)
(* The child's output is a stream of bytes.  A byte is identified by its   *)
(* position in the stream (written[i] is its value), so that a text held   *)
(* in the reader's buffer or passed to the callback is a sequence of       *)
(* positions and its characters are Text(.) of it.                         *)
(***************************************************************************)
EXTENDS Integers, Sequences, FiniteSets

\* ------------------------------------------------------------- bounds
MaxStream == 3      \* bytes the child writes in one run
MaxAttempts == 2    \* largest retry budget explored (the wrappers pass 3000)
MaxFaults == 1      \* genuine read errors injected in one run
MaxCount == 2       \* the counter spawns saturates here
MaxReaderStream == 5    \* bytes the child writes when the reader is run alone

\* ------------------------------------------------------------- alphabet
\* "p": an ASCII byte of a progress line; NL: the line terminator;
\* "H","T": the first and second byte of one two-byte UTF-8 character.
NL == "\n"
Bytes == {"p", NL, "H", "T"}
ExitStatuses == {"exit0", "exit1", "signal"}

VARIABLES
    entry,          \* the public function called: "wait_for_apt_locks" | "apt_upgrade"
    max_attempts,   \* wait_for_lock's budget
    attempts,       \* wait_for_lock's counter
    probeLog,       \* what the lock probe answered, poll by poll (TRUE = locked)
    readinessLog,   \* arguments of the calls of readiness, in order
    opRuns,         \* how many times the guarded operation was invoked
    pc,             \* "lock" | "status" | "spawn" | "loop" | "done"
    child,          \* "none" | "running" | "exited"
    status,         \* the child's exit status once exited
    stdoutOpen,     \* the write end of the child's stdout pipe is open
    written,        \* every byte the child wrote, in order
    rd,             \* bytes of written the reader has consumed
    stdout_buffer,  \* the String stdout_buffer (positions in written)
    delivered,      \* arguments of the calls of the line callback, in order
    events,         \* events handed to the caller of apt_upgrade, in order
    readErrs,       \* kinds of the errors non_blocking_line_reading returned so far
    faults,         \* genuine read errors injected so far
    lastRead,       \* how the last call of non_blocking_line_reading ended
    spawns,         \* calls of spawn()
    opResult,       \* what the guarded operation returned
    result          \* what the entry function returned

vars == <<entry, max_attempts, attempts, probeLog, readinessLog, opRuns, pc,
          child, status, stdoutOpen, written, rd, stdout_buffer, delivered,
          events, readErrs, faults, lastRead, spawns, opResult, result>>

lockVars == <<max_attempts, attempts, probeLog, readinessLog>>
childVars == <<child, status, stdoutOpen, written>>
readerVars == <<rd, stdout_buffer, delivered, readErrs, faults, lastRead>>

\* Results are pairs <<kind, detail>>.
NoResult == <<"None", "">>
OkResult == <<"Ok", "">>
Timeout == <<"Timeout", "">>
SpawnError == <<"SpawnError", "">>
WaitError == <<"WaitError", "">>

Inc(n) == IF n < MaxCount THEN n + 1 ELSE n

\* ------------------------------------------------------------- text
Text(s) == [i \in 1..Len(s) |-> written[s[i]]]

\* str::from_utf8 on the alphabet: every "H" is followed by its "T" and
\* every "T" follows an "H".
ValidUtf8(t) ==
    \A i \in 1..Len(t) :
        /\ t[i] = "H" => (i < Len(t) /\ t[i + 1] = "T")
        /\ t[i] = "T" => (i > 1 /\ t[i - 1] = "H")

\* Positions first..last.
Range(first, last) == [i \in 1..(last - first + 1) |-> first + i - 1]


\* ------------------------------------------------------------- reader
\* No call of non_blocking_line_reading has returned yet.
NoRead == [res |-> "None", end |-> "None"]

\* std's read_until(reader, b'\n', buf) over the bytes `avail` this call can
\* get; `after` is what the read following them answers: "WouldBlock",
\* "Eof" (a read of 0 bytes) or "IoErr" (any other error).
ReadUntil(avail, after) ==
    LET nl == {k \in 1..Len(avail) : written[avail[k]] = NL}
    IN  IF nl # {}
        THEN LET k == CHOOSE m \in nl : \A n \in nl : m <= n
             IN  [ret |-> "Ok", appended |-> SubSeq(avail, 1, k),
                  rest |-> SubSeq(avail, k + 1, Len(avail))]
        ELSE [ret |-> IF after = "Eof" THEN "Ok" ELSE after,
              appended |-> avail, rest |-> <<>>]

\* reader.read_line(buffer): read_until under append_to_string, which keeps
\* the appended bytes only if they are valid UTF-8 and otherwise truncates
\* the String to its old length and turns an Ok into Err(InvalidData).
ReadLine(buffer, avail, after) ==
    LET r == ReadUntil(avail, after)
    IN  IF ValidUtf8(Text(r.appended))
        THEN [ret |-> r.ret, n |-> Len(r.appended),
              buffer |-> buffer \o r.appended, rest |-> r.rest]
        ELSE [ret |-> IF r.ret = "Ok" THEN "InvalidData" ELSE r.ret, n |-> 0,
              buffer |-> buffer, rest |-> r.rest]

\* Mutant: the buffer is not cleared after the callback.
KeepAfterCallback(buffer) == buffer

\* buffer.clear() after callback(&buffer).
ClearAfterCallback(buffer) == <<>>

\* Mutant: the buffer is left as it is when an error is returned.
KeepOnError(buffer) == buffer

\* buffer.clear() before return Err(why).
ClearOnError(buffer) == <<>>

\* One call of non_blocking_line_reading; `out` collects the arguments of
\* the callback.  res is "Ok" or the kind of the error returned, end the
\* arm that left the loop: "Eof" (Ok(0)), "WouldBlock" or "Err".
RECURSIVE non_blocking_line_reading(_, _, _, _)
non_blocking_line_reading(buffer, avail, after, out) ==
    LET r == ReadLine(buffer, avail, after)
    IN  CASE r.ret = "Ok" /\ r.n = 0 ->
                [res |-> "Ok", end |-> "Eof", buffer |-> r.buffer, out |-> out,
                 rest |-> r.rest]
          [] r.ret = "Ok" /\ r.n > 0 ->
                non_blocking_line_reading(ClearAfterCallback(r.buffer), r.rest,
                                          after, Append(out, r.buffer))
          [] r.ret = "WouldBlock" ->
                [res |-> "Ok", end |-> "WouldBlock", buffer |-> r.buffer,
                 out |-> out, rest |-> r.rest]
          [] OTHER ->
                [res |-> r.ret, end |-> "Err", buffer |-> ClearOnError(r.buffer),
                 out |-> out, rest |-> r.rest]

\* ------------------------------------------------------------- decoder
\* line.parse::<AptUpgradeEvent>(): a line is a progress line when it
\* begins with the progress token "p".
Recognised(t) == Len(t) >= 1 /\ t[1] = "p"

parse(line) ==
    IF Recognised(Text(line)) THEN <<[kind |-> "Progress", line |-> line]>> ELSE <<>>

WaitingOnLock == [kind |-> "WaitingOnLock", line |-> <<>>]

\* Mutant: every line is turned into an event, parsed or not.
LineCallbackAlways(evs, line) == Append(evs, [kind |-> "Progress", line |-> line])

\* apt_upgrade's line closure: if let Ok(event) = line.parse() { callback(event) }
LineCallback(evs, line) == evs \o parse(line)

RECURSIVE Dispatch(_, _)
Dispatch(evs, out) ==
    IF out = <<>> THEN evs ELSE Dispatch(LineCallback(evs, Head(out)), Tail(out))

\* Mutant: the closure reports WaitingOnLock whatever it is told.
ReadinessAlways(evs, ready) == Append(evs, WaitingOnLock)

\* apt_upgrade's readiness closure: if !ready { callback(WaitingOnLock) }
Readiness(evs, ready) == IF ~ready THEN Append(evs, WaitingOnLock) ELSE evs

\* Mutant: termination by a signal is taken for success.
as_result_signal_ok(s) == IF s = "exit1" THEN <<"Failed", s>> ELSE OkResult

\* ExitStatusExt::as_result
as_result(s) == IF s = "exit0" THEN OkResult ELSE <<"Failed", s>>

\* ------------------------------------------------------------- initial state
Init ==
    /\ entry \in {"wait_for_apt_locks", "apt_upgrade"}
    /\ max_attempts \in 0..MaxAttempts
    /\ entry = "apt_upgrade" => max_attempts = MaxAttempts
    /\ attempts = 0
    /\ probeLog = <<>>
    /\ readinessLog = <<>>
    /\ opRuns = 0
    /\ pc = "lock"
    /\ child = "none"
    /\ status = "exit0"
    /\ stdoutOpen = FALSE
    /\ written = <<>>
    /\ rd = 0
    /\ stdout_buffer = <<>>
    /\ delivered = <<>>
    /\ events = <<>>
    /\ readErrs = {}
    /\ faults = 0
    /\ lastRead = NoRead
    /\ spawns = 0
    /\ opResult = NoResult
    /\ result = NoResult

\* ------------------------------------------------------------- lock waiter
\* The operation wait_for_lock guards: apt_upgrade passes the supervisor,
\* the other wrappers pass apt_noninteractive.
OperationEntry == IF entry = "apt_upgrade" THEN "spawn" ELSE "status"

\* Mutant: the budget comparison is off by one.
BudgetExceeded(n, max) == n > max

\* attempts >= max_attempts after the increment.
BudgetExhausted(n, max) == n >= max

\* What readiness is told on a poll that found the lock locked / free.
SignalLocked == FALSE
SignalFree == TRUE

\* The caller's readiness observer: apt_upgrade's closure turns it into
\* events; any observer sees the call.
Notify(ready) ==
    /\ readinessLog' = Append(readinessLog, ready)
    /\ events' = IF entry = "apt_upgrade" THEN Readiness(events, ready) ELSE events

\* One iteration of wait_for_lock that finds the lock free.
LockFree ==
    /\ pc = "lock"
    /\ probeLog' = Append(probeLog, FALSE)
    /\ Notify(SignalFree)
    /\ opRuns' = opRuns + 1
    /\ pc' = OperationEntry
    /\ UNCHANGED <<entry, max_attempts, attempts, childVars, readerVars,
                   spawns, opResult, result>>

\* One iteration of wait_for_lock that finds the lock locked.
LockBusy ==
    /\ pc = "lock"
    /\ probeLog' = Append(probeLog, TRUE)
    /\ Notify(SignalLocked)
    /\ attempts' = attempts + 1
    /\ IF BudgetExhausted(attempts + 1, max_attempts)
       THEN pc' = "done" /\ result' = Timeout
       ELSE pc' = "lock" /\ result' = result
    /\ UNCHANGED <<entry, max_attempts, opRuns, childVars, readerVars,
                   spawns, opResult>>

\* Mutant: the operation's result is dropped.
ReturnedOk(r) == OkResult

\* wait_for_lock returns what the operation returned.
Returned(r) == r

LockReturn ==
    /\ pc = "opdone"
    /\ result' = Returned(opResult)
    /\ pc' = "done"
    /\ UNCHANGED <<entry, lockVars, opRuns, childVars, readerVars, events,
                   spawns, opResult>>

\* ------------------------------------------------------------- apt_noninteractive
\* Command::status() launches the command and waits for it;
\* and_then(as_result) classifies the exit status.
Status ==
    /\ pc = "status"
    /\ spawns' = Inc(spawns)
    /\ \/ /\ opResult' = SpawnError
          /\ UNCHANGED <<child, status>>
       \/ \E s \in ExitStatuses :
            /\ child' = "exited"
            /\ status' = s
            /\ opResult' = as_result(s)
    /\ pc' = "opdone"
    /\ UNCHANGED <<entry, lockVars, opRuns, stdoutOpen, written, readerVars,
                   events, result>>

\* ------------------------------------------------------------- child process
ChildWrite ==
    /\ child = "running"
    /\ stdoutOpen
    /\ Len(written) < MaxStream
    /\ \E b \in Bytes : written' = Append(written, b)
    /\ UNCHANGED <<entry, lockVars, opRuns, pc, child, status, stdoutOpen,
                   readerVars, events, spawns, opResult, result>>

\* The child closes its standard output and keeps running.
ChildCloseStdout ==
    /\ child = "running"
    /\ stdoutOpen
    /\ stdoutOpen' = FALSE
    /\ UNCHANGED <<entry, lockVars, opRuns, pc, child, status, written,
                   readerVars, events, spawns, opResult, result>>

ChildExit ==
    /\ child = "running"
    /\ child' = "exited"
    /\ \E s \in ExitStatuses : status' = s
    /\ stdoutOpen' = FALSE
    /\ UNCHANGED <<entry, lockVars, opRuns, pc, written, readerVars, events,
                   spawns, opResult, result>>

\* ------------------------------------------------------------- supervisor
\* Mutant: a failed spawn is tried again.
OnSpawnErrorRetry == "spawn"

\* .spawn()? : where apt_noninteractive_callback goes when spawn fails.
OnSpawnError == "opdone"

Spawn ==
    /\ pc = "spawn"
    /\ spawns' = Inc(spawns)
    /\ \/ /\ pc' = OnSpawnError
          /\ opResult' = SpawnError
          /\ UNCHANGED <<child, stdoutOpen>>
       \/ /\ pc' = "loop"
          /\ child' = "running"
          /\ stdoutOpen' = TRUE
          /\ UNCHANGED opResult
    /\ UNCHANGED <<entry, lockVars, opRuns, status, written, readerVars,
                   events, result>>

\* child.try_wait()? fails.
PollWaitError ==
    /\ pc = "loop"
    /\ opResult' = WaitError
    /\ pc' = "opdone"
    /\ UNCHANGED <<entry, lockVars, opRuns, childVars, readerVars, events,
                   spawns, result>>

\* Mutant: the arm Some(status) does not leave the loop.
OnExitedStay == "loop"

\* Some(status) => return ..: where the loop goes once the exit is seen.
OnExited == "opdone"

\* Some(status) => return status.as_result()
PollExited ==
    /\ pc = "loop"
    /\ child = "exited"
    /\ opResult' = as_result(status)
    /\ pc' = OnExited
    /\ UNCHANGED <<entry, lockVars, opRuns, childVars, readerVars, events,
                   spawns, result>>

\* Mutant: the reader's error is propagated with `?`.
AfterReadAbort(res) == IF res = "Ok" THEN "loop" ELSE "opdone"

\* let _ = non_blocking_line_reading(..): where the loop goes after a call
\* that returned res.
AfterRead(res) == "loop"

\* None => one call of non_blocking_line_reading.  The call gets the first
\* k unread bytes; a genuine read error may follow any prefix of them, and
\* without one the call gets them all and then would-block or end-of-data.
PollRunning ==
    /\ pc = "loop"
    /\ child = "running"
    /\ \E k \in 0..(Len(written) - rd), fault \in BOOLEAN :
         /\ fault => faults < MaxFaults
         /\ ~fault => k = Len(written) - rd
         /\ LET after == IF fault THEN "IoErr"
                         ELSE IF stdoutOpen THEN "WouldBlock" ELSE "Eof"
                r == non_blocking_line_reading(stdout_buffer,
                         Range(rd + 1, rd + k), after, <<>>)
            IN  /\ rd' = rd + k - Len(r.rest)
                /\ stdout_buffer' = r.buffer
                /\ delivered' = delivered \o r.out
                /\ events' = Dispatch(events, r.out)
                /\ readErrs' = IF r.res = "Ok" THEN readErrs ELSE readErrs \cup {r.res}
                /\ faults' = IF r.res = "IoErr" THEN faults + 1 ELSE faults
                /\ lastRead' = [res |-> r.res, end |-> r.end]
                /\ pc' = AfterRead(r.res)
                /\ opResult' = IF AfterRead(r.res) = "loop" THEN opResult
                               ELSE <<"ReadError", r.res>>
    /\ UNCHANGED <<entry, lockVars, opRuns, childVars, spawns, result>>

\* ------------------------------------------------------------- specification
Next ==
    \/ LockFree
    \/ LockBusy
    \/ LockReturn
    \/ Status
    \/ Spawn
    \/ PollWaitError
    \/ PollExited
    \/ PollRunning
    \/ ChildWrite
    \/ ChildCloseStdout
    \/ ChildExit

Spec == Init /\ [][Next]_vars

\* The loop sleeps 16 ms and goes round again, and no call in it waits: once
\* the child has exited, the iteration that sees the exit is taken.
FairSpec == Spec /\ WF_vars(PollExited)

\* ------------------------------------------------------------- reader alone
\* apt_upgrade's supervisor from the moment its child is running: the lock
\* was free on the first probe and spawn succeeded.  The child writes a
\* longer stream and does not exit.
InitReader ==
    /\ entry = "apt_upgrade"
    /\ max_attempts = MaxAttempts
    /\ attempts = 0
    /\ probeLog = <<FALSE>>
    /\ readinessLog = <<SignalFree>>
    /\ opRuns = 1
    /\ pc = "loop"
    /\ child = "running"
    /\ status = "exit0"
    /\ stdoutOpen = TRUE
    /\ written = <<>>
    /\ rd = 0
    /\ stdout_buffer = <<>>
    /\ delivered = <<>>
    /\ events = <<>>
    /\ readErrs = {}
    /\ faults = 0
    /\ lastRead = NoRead
    /\ spawns = 1
    /\ opResult = NoResult
    /\ result = NoResult

ChildWriteLong ==
    /\ child = "running"
    /\ stdoutOpen
    /\ Len(written) < MaxReaderStream
    /\ \E b \in Bytes : written' = Append(written, b)
    /\ UNCHANGED <<entry, lockVars, opRuns, pc, child, status, stdoutOpen,
                   readerVars, events, spawns, opResult, result>>

NextReader ==
    \/ ChildWriteLong
    \/ ChildCloseStdout
    \/ PollRunning

SpecReader == InitReader /\ [][NextReader]_vars

\* ------------------------------------------------------------- stream lines
\* The source line (counted from 0) that holds position i of the stream.
SourceLine(i) == Cardinality({j \in 1..(i - 1) : written[j] = NL})

\* The complete (terminated) lines of the stream, in order.
RECURSIVE CompleteLines(_, _)
CompleteLines(i, start) ==
    IF i > Len(written) THEN <<>>
    ELSE IF written[i] = NL
         THEN <<Range(start, i)>> \o CompleteLines(i + 1, i + 1)
         ELSE CompleteLines(i + 1, start)

StreamLines == CompleteLines(1, 1)

Ascii == \A i \in 1..Len(written) : written[i] \in {"p", NL}

ProgressEvents == SelectSeq(events, LAMBDA e : e.kind = "Progress")

\* ------------------------------------------------------------- C1
\* C1: when the supervisor returns the result of an exited child, every
\* complete line the child wrote has been passed to the callback (stated
\* for ASCII output and runs without a genuine read error).
C1_FinalDrainOnExit ==
    (/\ entry = "apt_upgrade"
     /\ opResult[1] \in {"Ok", "Failed"}
     /\ faults = 0
     /\ Ascii)
    => \A k \in 1..Len(StreamLines) :
          \E i \in 1..Len(delivered) : delivered[i] = StreamLines[k]

\* ------------------------------------------------------------- C2
TerminalOutcomes ==
    {OkResult, SpawnError, WaitError}
        \cup {<<"Failed", s>> : s \in ExitStatuses \ {"exit0"}}

C2_Outcome ==
    opResult # NoResult =>
        /\ opResult \in TerminalOutcomes
        /\ pc \in {"opdone", "done"}
        /\ opResult = OkResult => (child = "exited" /\ status = "exit0")
        /\ opResult[1] = "Failed" =>
              (child = "exited" /\ status # "exit0" /\ opResult[2] = status)
        /\ opResult[1] \in {"Ok", "Failed"} =>
              (opResult = OkResult <=> status = "exit0")

\* C2: the operation's result is one terminal outcome, success exactly when
\* the exit the supervisor observed had code zero and otherwise a failure
\* carrying the exit detail; once it is produced the result does not change
\* and nothing more is read, buffered or delivered.
C2_TerminalResult ==
    [][/\ C2_Outcome'
       /\ opResult # NoResult =>
             /\ UNCHANGED <<opResult, rd, stdout_buffer, delivered, events>>
             /\ pc' \in {"opdone", "done"}]_vars

C2_Witness ==
    /\ entry = "apt_upgrade"
    /\ pc = "done"
    /\ result = <<"Failed", "signal">>
    /\ delivered # <<>>

\* ------------------------------------------------------------- C3
\* C3: every text passed to the callback lies within one source line, its
\* bytes in stream order, and successive texts come from strictly later
\* source lines (none before an earlier one, none twice); the progress
\* events reach the caller in the same order.
C3_OrderPreserved ==
    /\ \A i \in 1..Len(delivered) :
          /\ delivered[i] # <<>>
          /\ \A k \in 1..(Len(delivered[i]) - 1) :
                /\ delivered[i][k] < delivered[i][k + 1]
                /\ SourceLine(delivered[i][k]) = SourceLine(delivered[i][k + 1])
          /\ delivered[i][Len(delivered[i])] <= rd
    /\ \A i \in 1..(Len(delivered) - 1) :
          SourceLine(delivered[i][Len(delivered[i])]) < SourceLine(delivered[i + 1][1])
    /\ \A i \in 1..(Len(ProgressEvents) - 1) :
          SourceLine(ProgressEvents[i].line[1]) < SourceLine(ProgressEvents[i + 1].line[1])

C3_Witness ==
    /\ Len(delivered) >= 2
    /\ Len(ProgressEvents) >= 1
    /\ pc = "loop"

\* ------------------------------------------------------------- C4
\* C4: while the child runs with its output open and no genuine read error
\* occurs, once the reader has consumed all of a stream that is one line of
\* valid text, an unterminated line is wholly in the buffer and nothing was
\* delivered, and a terminated line was delivered exactly once, whole.
C4_FragmentAssembled ==
    (/\ entry = "apt_upgrade"
     /\ pc = "loop"
     /\ child = "running"
     /\ stdoutOpen
     /\ faults = 0
     /\ written # <<>>
     /\ rd = Len(written)
     /\ ValidUtf8(written)
     /\ \A i \in 1..(Len(written) - 1) : written[i] # NL)
    => IF written[Len(written)] = NL
       THEN delivered = <<Range(1, Len(written))>> /\ stdout_buffer = <<>>
       ELSE delivered = <<>> /\ stdout_buffer = Range(1, Len(written))

\* ------------------------------------------------------------- C5
AllLocked == \A i \in 1..Len(probeLog) : probeLog[i]

\* C5: the operation runs at most once and only on a poll that found the
\* lock free; when the probe answered locked N times and then free,
\* readiness was told false N times and then true once, the operation ran
\* once, and wait_for_lock returns the operation's result.
C5_FreeAfterNLocked ==
    /\ opRuns <= 1
    /\ (probeLog # <<>> /\ ~probeLog[Len(probeLog)]) <=> opRuns = 1
    /\ opRuns = 1 =>
          LET N == Len(probeLog) - 1
          IN  /\ \A i \in 1..N : probeLog[i]
              /\ N < max_attempts \/ N = 0
              /\ attempts = N
              /\ readinessLog = [i \in 1..(N + 1) |-> i = N + 1]
              /\ pc # "lock"
              /\ pc = "done" => (result = opResult /\ result \in TerminalOutcomes)

C5_Witness ==
    /\ pc = "done"
    /\ max_attempts = 2
    /\ probeLog = <<TRUE, FALSE>>
    /\ readinessLog = <<FALSE, TRUE>>
    /\ opRuns = 1
    /\ result = <<"Failed", "exit1">>

\* ------------------------------------------------------------- C6
\* C6: when the probe answered locked on every poll of the budget,
\* wait_for_lock has returned Timeout without invoking the operation or
\* telling readiness true; Timeout is returned in no other case and is no
\* result of the operation.
C6_Timeout ==
    /\ (probeLog # <<>> /\ AllLocked /\ Len(probeLog) >= max_attempts) =>
          /\ pc = "done"
          /\ result = Timeout
    /\ result = Timeout =>
          /\ AllLocked
          /\ Len(probeLog) = attempts
          /\ attempts = IF max_attempts = 0 THEN 1 ELSE max_attempts
          /\ opRuns = 0
          /\ \A i \in 1..Len(readinessLog) : ~readinessLog[i]
          /\ Len(readinessLog) = attempts
          /\ child = "none" /\ spawns = 0
          /\ opResult = NoResult
    /\ opResult # Timeout

C6_Witness ==
    /\ pc = "done"
    /\ max_attempts = 2
    /\ probeLog = <<TRUE, TRUE>>
    /\ result = Timeout

\* ------------------------------------------------------------- C7
\* C7: with max_attempts = 0 the lock is never probed, readiness is never
\* told true, the operation is never invoked and the result is Timeout.
C7_ZeroBudget ==
    max_attempts = 0 =>
        /\ probeLog = <<>>
        /\ opRuns = 0
        /\ \A i \in 1..Len(readinessLog) : ~readinessLog[i]
        /\ pc \in {"lock", "done"}
        /\ pc = "done" => result = Timeout

\* ------------------------------------------------------------- C8
\* C8 as claimed: after a genuine read error the supervisor has stopped
\* polling and its result is that error.
C8_ReadErrorAborts ==
    "IoErr" \in readErrs => (pc \in {"opdone", "done"} /\ opResult[1] = "ReadError")

\* C8 as amended: a genuine read error ends only that call of the reader,
\* with the buffer cleared; the supervisor discards it and stays in its
\* loop, and its result is never the read error but the outcome of
\* try_wait alone.
C8_ReadErrorDiscarded ==
    [][/\ faults' > faults =>
             /\ "IoErr" \in readErrs'
             /\ pc' = "loop"
             /\ stdout_buffer' = <<>>
             /\ opResult' = NoResult
       /\ opResult'[1] # "ReadError"
       /\ ("IoErr" \in readErrs' /\ opResult' # NoResult) =>
             opResult' \in {WaitError,
                            IF status' = "exit0" THEN OkResult
                            ELSE <<"Failed", status'>>}]_vars

C8_Witness ==
    /\ "IoErr" \in readErrs
    /\ pc = "done"
    /\ result = OkResult

\* ------------------------------------------------------------- C9
RecognisedLines == SelectSeq(delivered, LAMBDA l : Recognised(Text(l)))

\* C9: the caller of apt_upgrade gets one event for each line that parses,
\* in order, and none for a line that does not; lines after a line that
\* does not parse are still processed, and the result follows the exit
\* status whatever the lines were.
C9_DecodeMismatch ==
    /\ Len(ProgressEvents) = Len(RecognisedLines)
    /\ \A i \in 1..Len(ProgressEvents) : ProgressEvents[i].line = RecognisedLines[i]
    /\ (opResult[1] \in {"Ok", "Failed"} /\ Len(RecognisedLines) < Len(delivered)) =>
          opResult = IF status = "exit0" THEN OkResult ELSE <<"Failed", status>>

C9_Witness ==
    /\ Len(delivered) = 2
    /\ ~Recognised(Text(delivered[1]))
    /\ Recognised(Text(delivered[2]))
    /\ Len(ProgressEvents) = 1
    /\ ProgressEvents[1].line = delivered[2]
    /\ pc = "done"
    /\ result = OkResult

\* ------------------------------------------------------------- C10
\* C10: when spawning fails the operation has returned that error at once:
\* one spawn, no child, the loop never entered, nothing read or delivered.
C10_SpawnFailure ==
    opResult = SpawnError =>
        /\ pc \in {"opdone", "done"}
        /\ spawns = 1
        /\ child = "none"
        /\ rd = 0 /\ written = <<>> /\ stdout_buffer = <<>>
        /\ delivered = <<>>
        /\ ProgressEvents = <<>>
        /\ pc = "done" => result = SpawnError

C10_Witness ==
    /\ entry = "apt_upgrade"
    /\ pc = "done"
    /\ result = SpawnError
    /\ spawns = 1

\* ------------------------------------------------------------- C11
\* The positions held in the texts passed to the callback, with repetition.
RECURSIVE Flatten(_)
Flatten(lines) == IF lines = <<>> THEN <<>> ELSE Head(lines) \o Flatten(Tail(lines))

\* C11: every byte the reader has consumed is either in the buffer or in
\* exactly one text passed to the callback, never in both and never lost
\* (stated for output that is valid text and runs without a genuine read
\* error).
C11_NoByteLost ==
    (/\ entry = "apt_upgrade"
     /\ faults = 0
     /\ ValidUtf8(written))
    => LET held == Flatten(delivered) \o stdout_buffer
       IN  /\ Len(held) = rd
           /\ \A i \in 1..rd : \E k \in 1..Len(held) : held[k] = i

\* ------------------------------------------------------------- C12
\* C12: every text passed to the callback ends with the line terminator.
C12_OnlyCompleteLines ==
    \A i \in 1..Len(delivered) :
        /\ delivered[i] # <<>>
        /\ written[delivered[i][Len(delivered[i])]] = NL

\* ------------------------------------------------------------- C13
IsPrefix(a, b) == Len(a) <= Len(b) /\ SubSeq(b, 1, Len(a)) = a

\* C13: a call of non_blocking_line_reading leaves its loop in one of three
\* ways.  On end-of-data and on would-block it returns Ok and the fragment
\* buffered before the call is still pending, or was the beginning of the
\* first text the call passed to the callback; on any other error the
\* buffer is empty and the error is returned.
C13_CallOutcome ==
    [][(/\ pc = "loop" /\ pc' = "loop"
        /\ child = "running"
        /\ UNCHANGED childVars)
       => LET n == Len(delivered') - Len(delivered)
              kept == IF n = 0
                      THEN IsPrefix(stdout_buffer, stdout_buffer')
                      ELSE IsPrefix(stdout_buffer, delivered'[Len(delivered) + 1])
          IN  /\ lastRead'.end \in {"Eof", "WouldBlock", "Err"}
              /\ lastRead'.end = "Eof" =>
                    /\ lastRead'.res = "Ok"
                    /\ ~stdoutOpen
                    /\ kept
                    /\ faults' = faults
              /\ lastRead'.end = "WouldBlock" =>
                    /\ lastRead'.res = "Ok"
                    /\ stdoutOpen
                    /\ kept
                    /\ faults' = faults
              /\ lastRead'.end = "Err" =>
                    /\ lastRead'.res \in {"IoErr", "InvalidData"}
                    /\ lastRead'.res \in readErrs'
                    /\ lastRead'.res = "IoErr" <=> faults' = faults + 1
                    /\ stdout_buffer' = <<>>]_vars

C13_Witness ==
    /\ lastRead = [res |-> "Ok", end |-> "WouldBlock"]
    /\ stdout_buffer # <<>>
    /\ "IoErr" \in readErrs
    /\ pc = "loop"

\* ------------------------------------------------------------- C14
WaitingEvents == SelectSeq(events, LAMBDA e : e.kind = "WaitingOnLock")

\* C14: the caller of apt_upgrade has received one WaitingOnLock event for
\* each readiness(false) and none for readiness(true); the command exists
\* only after a poll that found the lock free, so the WaitingOnLock events
\* all come before the events decoded from the output; after a lock
\* timeout the caller has received WaitingOnLock events only.
C14_WaitingOnLock ==
    entry = "apt_upgrade" =>
        /\ Len(WaitingEvents) =
              Cardinality({i \in 1..Len(readinessLog) : ~readinessLog[i]})
        /\ events = WaitingEvents \o ProgressEvents
        /\ (child # "none" \/ spawns > 0 \/ ProgressEvents # <<>>) =>
              (probeLog # <<>> /\ ~probeLog[Len(probeLog)] /\ opRuns = 1)
        /\ result = Timeout =>
              (events = WaitingEvents /\ Len(events) = max_attempts /\ events # <<>>)

C14_Witness ==
    /\ entry = "apt_upgrade"
    /\ Len(WaitingEvents) = 1
    /\ Len(ProgressEvents) >= 1
    /\ readinessLog = <<FALSE, TRUE>>
    /\ pc = "done"

\* ------------------------------------------------------------- C15
\* C15: a call of the reader always comes back to the loop; the first
\* iteration after the child's exit returns a result, whatever is in the
\* pipe or in the buffer; and so, once the child has exited, the supervisor
\* eventually returns.
C15_EventuallyReturns ==
    /\ [][(pc = "loop" /\ child = "running" /\ lastRead' # lastRead)
             => pc' = "loop"]_vars
    /\ [][(pc = "loop" /\ child = "exited")
             => (pc' # "loop" /\ opResult' # NoResult)]_vars
    /\ (pc = "loop" /\ child = "exited") ~> (pc # "loop" /\ opResult # NoResult)

C15_Witness ==
    /\ pc = "done"
    /\ child = "exited"
    /\ result = OkResult
    /\ stdout_buffer # <<>>
    /\ rd < Len(written)

\* ------------------------------------------------------------- C16
\* A complete line of the stream that is not valid text comes before the
\* k-th complete line.
AfterMalformed(k) ==
    \E j \in 1..(k - 1) : ~ValidUtf8(Text(StreamLines[j]))

\* C16: while the child is running and no genuine read error has happened,
\* every complete line of valid text that follows a malformed line and has
\* been consumed was passed to the callback as exactly its own bytes.
C16_ValidLineAfterMalformed ==
    (/\ pc = "loop"
     /\ child = "running"
     /\ faults = 0)
    => \A k \in 1..Len(StreamLines) :
          LET line == StreamLines[k]
          IN  (/\ ValidUtf8(Text(line))
               /\ line[Len(line)] <= rd
               /\ AfterMalformed(k))
              => \E i \in 1..Len(delivered) : delivered[i] = line

=============================================================================
